---- MODULE Spec2Model ----
(***************************************************************************)
(* Model of the planetary stacker C API (planetary_stacker.cpp/.h):        *)
(* ps_analyze_video, ps_process_video, ps_get_last_error, ps_clear_error.  *)
(*                                                                         *)
(* A call is modelled step by step.  Every step runs the code up to and    *)
(* including the next invocation of the caller's progress callback (where  *)
(* control leaves the library) or up to the return.  A pointer is a        *)
(* sequence: <<>> is the null pointer, <<v>> points to v.                  *)
(***************************************************************************)
EXTENDS Integers, Sequences, FiniteSets, TLC

VARIABLES
    pc,               \* position of the thread: "idle", a step label, "crashed"
    op,               \* the entry point called most recently ("none" at start)
    video_path,       \* arguments of the current call
    output_path,
    params,
    sample_step,
    callback,
    seed,             \* value std::random_device produced for this call
    analyzed_count,   \* locals of ps_analyze_video
    i,                \* loop counter of the loop being run
    scores,
    result,           \* value returned by ps_analyze_video
    ret,              \* value returned by ps_process_video
    frames_to_use,    \* local of ps_process_video
    notifications,    \* (progress, message) pairs the callback received in this call
    g_last_error,     \* thread_local std::string g_last_error
    cancelRequested,  \* the caller asked for the running call to stop
    thread_pc,        \* per thread: "idle" or the entry point the thread is in
    tls_last_error,   \* per thread: the thread's instance of g_last_error
    actor             \* the thread that took the last step (0 at start)

vars == <<pc, op, video_path, output_path, params, sample_step, callback, seed,
          analyzed_count, i, scores, result, ret, frames_to_use, notifications,
          g_last_error, cancelRequested, thread_pc, tls_last_error, actor>>

\* the state of one thread's call, modelled step by step
callVars == <<pc, op, video_path, output_path, params, sample_step, callback, seed,
              analyzed_count, i, scores, result, ret, frames_to_use, notifications,
              g_last_error, cancelRequested>>

\* the state of the threads, modelled call by call
threadVars == <<thread_pc, tls_last_error, actor>>

-----------------------------------------------------------------------------
(* Bounds of the model *)

\* seeds 0..MaxSeed stand for the values std::random_device can return
MaxSeed == 1

\* threads 1..NumThreads call the API
NumThreads == 2

-----------------------------------------------------------------------------
(* Types and constants of the program *)

NULL == <<>>

Deref(p) == p[1]

INT32_MAX == 2147483647

INT32_MIN == -INT32_MAX - 1

\* const int total_frames = 1000
total_frames == 1000

\* the literal 1000 of ps_process_video's frame selection
process_total_frames == 1000

\* keep_percentage is a float; the model keeps it in units of 1/KeepScale
KeepScale == 10000

\* quality_score is a double; the model keeps it in hundredths
QualityMin == 5

QualityMax == 99

\* PSProgressCallback values: a null pointer, a callback that returns, and a
\* callback that may raise an exception out of any of its invocations
Callbacks == {NULL, <<"returns">>, <<"throws">>}

CallbackOutcomes(cb) ==
    IF cb = <<"throws">> THEN {"returns", "std_exception", "other_exception"}
    ELSE {"returns"}

Paths == {NULL, <<"path">>}

\* sample_step arguments: negative, zero, small, the documented default 3,
\* beyond total_frames, and the values around which total_frames + sample_step
\* leaves the int range
SampleSteps ==
    {-1000, -1, 0, 1, 3, 7, 250, 1000, 1001,
     INT32_MAX - 1000, INT32_MAX - 999, INT32_MAX - 499, INT32_MAX}

Seeds == 0..MaxSeed

Threads == 1..NumThreads

PSProcessingParams(kp, mn, mx, la) ==
    [keep_percentage |-> kp, min_frames |-> mn, max_frames |-> mx,
     enable_local_align |-> la]

ps_get_default_params == PSProcessingParams(2500, 50, 500, TRUE)

\* 0.25, 0.2509 and 1.5
KeepPercentages == {2500, 2509, 15000}

MinFrames == {50, 2000}

MaxFrames == {500, 2000}

ParamsValues ==
    {PSProcessingParams(kp, mn, mx, la) :
        kp \in KeepPercentages, mn \in MinFrames, mx \in MaxFrames, la \in BOOLEAN}
    \cup {ps_get_default_params}

ParamsPointers == {NULL} \cup {<<p>> : p \in ParamsValues}

-----------------------------------------------------------------------------
(* int arithmetic of ps_analyze_video *)

\* a + b of two ints leaves the int range (signed overflow: undefined)
AddOverflows(a, b) ==
    IF b >= 0 THEN a > INT32_MAX - b ELSE a < INT32_MIN - b

\* a + b reduced modulo 2^32 into the int range, computed without leaving it
WrapAdd(a, b) ==
    IF ~AddOverflows(a, b) THEN a + b
    ELSE IF b >= 0 THEN (a - INT32_MAX - 1) + (b - INT32_MAX - 1)
    ELSE (a + INT32_MAX + 1) + (b + INT32_MAX + 1)

Abs(a) == IF a < 0 THEN -a ELSE a

\* C++ integer division: the quotient truncated towards zero
TruncDiv(a, b) ==
    IF (a >= 0) = (b > 0) THEN Abs(a) \div Abs(b) ELSE -(Abs(a) \div Abs(b))

\* outcomes of (total_frames + sample_step - 1) / sample_step.  Division by
\* zero and signed overflow are undefined: the build either traps ("trap") or
\* goes on with the wrapped sum, respectively with a zero quotient.  An
\* outcome is <<>> for the trap and <<n>> for the value n.
TRAP == <<>>

SumOverflows(step) ==
    IF AddOverflows(total_frames, step) THEN TRUE
    ELSE AddOverflows(total_frames + step, -1)

AnalyzedCountOutcomes(step) ==
    IF step = 0 THEN {TRAP, <<0>>}
    ELSE IF SumOverflows(step)
         THEN {TRAP, <<TruncDiv(WrapAdd(WrapAdd(total_frames, step), -1), step)>>}
    ELSE {<<TruncDiv(total_frames + step - 1, step)>>}

-----------------------------------------------------------------------------
(* The simulated frame quality of ps_analyze_video, in hundredths *)

\* sin of d degrees (0 <= d < 360) in hundredths, by Bhaskara's approximation
SinPct(d) ==
    LET h == d % 180
        v == (400 * h * (180 - h)) \div (40500 - h * (180 - h))
    IN IF d < 180 THEN v ELSE -v

\* frame_idx * 0.03 and frame_idx * 0.15 radians, in degrees modulo 360
SlowAngle(frame_idx) == ((frame_idx * 1719) \div 1000) % 360

FastAngle(frame_idx) == ((frame_idx * 8594) \div 1000) % 360

base_seeing == 65

slow_variation(frame_idx) == TruncDiv(20 * SinPct(SlowAngle(frame_idx)), 100)

fast_variation(frame_idx) == TruncDiv(10 * SinPct(FastAngle(frame_idx)), 100)

\* the n-th draw of noise_dist(gen) for a generator seeded with sd: a value of
\* [-0.15, 0.15] fixed by the seed and the number of the draw
noise_dist(sd, n) == (((sd + 1) * 7919 + n * 104729) % 31) - 15

Max(a, b) == IF a > b THEN a ELSE b

Min(a, b) == IF a < b THEN a ELSE b

Quality(sd, n, frame_idx) ==
    Max(QualityMin,
        Min(QualityMax,
            base_seeing + slow_variation(frame_idx) + fast_variation(frame_idx)
                + noise_dist(sd, n)))

\* variant: the loop counter stored as the frame index
PSFrameScoreByCounter(sd, n, step) ==
    [frame_index |-> n,
     quality_score |-> Quality(sd, n, n * step),
     roi_x |-> 220 + (n % 10) - 5,
     roi_y |-> 165 + (n % 8) - 4,
     roi_width |-> 640,
     roi_height |-> 480]

PSFrameScore(sd, n, step) ==
    [frame_index |-> n * step,
     quality_score |-> Quality(sd, n, n * step),
     roi_x |-> 220 + (n % 10) - 5,
     roi_y |-> 165 + (n % 8) - 4,
     roi_width |-> 640,
     roi_height |-> 480]

\* variant: the frame index taken for the loop counter
AnalyzeProgressByFrameIndex(n, frame_idx, count) == (frame_idx * 90) \div count

\* progress reported inside the analysis loop
AnalyzeProgress(n, frame_idx, count) == (n * 90) \div count

ReportsProgress(n) == n % 50 = 0

-----------------------------------------------------------------------------
(* std::sort with the comparator a.quality_score > b.quality_score *)

Reverse(s) == [k \in 1..Len(s) |-> s[Len(s) + 1 - k]]

\* the elements of s of quality q down to QualityMin, best first, each quality
\* class in the order of s
RECURSIVE SortFrom(_, _)
SortFrom(s, q) ==
    IF q < QualityMin THEN <<>>
    ELSE SelectSeq(s, LAMBDA e : e.quality_score = q) \o SortFrom(s, q - 1)

\* std::sort leaves the relative order of elements the comparator does not
\* order unspecified: "kept" keeps the order of the input among them,
\* "reversed" reverses it.
TieOrders == {"kept", "reversed"}

SortByQuality(s, tie) ==
    IF tie = "kept" THEN SortFrom(s, QualityMax)
    ELSE SortFrom(Reverse(s), QualityMax)

PSAnalysisResult(sorted) ==
    [total_frames |-> total_frames, count |-> Len(sorted), scores |-> sorted]

-----------------------------------------------------------------------------
(* The progress callback and the catch clauses *)

\* what the callback has received once the code ran "if (callback) callback(p, m, ...)"
Notified(cb, p, m) ==
    IF cb = NULL THEN notifications
    ELSE Append(notifications, [progress |-> p, message |-> m])

\* e.what() of the std::exception a throwing callback raises
CallbackWhat == "callback failed"

\* e.what() of the std::length_error of std::vector::reserve
ReserveWhat == "vector::reserve"

AnalyzeCatchMessage(exception, what) ==
    IF exception = "std_exception" THEN "Video analysis failed: " \o what
    ELSE "Unknown error during video analysis"

ProcessCatchMessage(exception, what) ==
    IF exception = "std_exception" THEN "Processing failed: " \o what
    ELSE "Unknown error during processing"

\* variant: the successful end leaves g_last_error as it was
KeptOnSuccess(err) == err

\* g_last_error after the successful end of an entry point: g_last_error.clear()
ClearedOnSuccess(err) == ""

Init ==
    /\ pc = "idle"
    /\ op = "none"
    /\ video_path = NULL
    /\ output_path = NULL
    /\ params = NULL
    /\ sample_step = 1
    /\ callback = NULL
    /\ seed = 0
    /\ analyzed_count = 0
    /\ i = 0
    /\ scores = <<>>
    /\ result = NULL
    /\ ret = 0
    /\ frames_to_use = 0
    /\ notifications = <<>>
    /\ g_last_error = ""
    /\ cancelRequested = FALSE
    /\ thread_pc = [t \in Threads |-> "idle"]
    /\ tls_last_error = [t \in Threads |-> ""]
    /\ actor = 0

-----------------------------------------------------------------------------
(* ps_analyze_video *)

AnalyzeArgsInvalid(vp) == vp = NULL

\* the catch clauses of ps_analyze_video
AnalyzeCatch(exception, what) ==
    /\ g_last_error' = AnalyzeCatchMessage(exception, what)
    /\ result' = NULL
    /\ pc' = "idle"

\* entry, the null check and callback(0, "Starting video analysis...")
AnalyzeCall ==
    /\ pc = "idle"
    /\ \E vp \in Paths, step \in SampleSteps, cb \in Callbacks, sd \in Seeds :
        /\ op' = "analyze"
        /\ video_path' = vp
        /\ sample_step' = step
        /\ callback' = cb
        /\ seed' = sd
        /\ output_path' = NULL
        /\ params' = NULL
        /\ analyzed_count' = 0
        /\ i' = 0
        /\ scores' = <<>>
        /\ ret' = 0
        /\ frames_to_use' = 0
        /\ cancelRequested' = FALSE
        /\ UNCHANGED threadVars
        /\ IF AnalyzeArgsInvalid(vp)
           THEN /\ g_last_error' = "Video path cannot be null"
                /\ result' = NULL
                /\ notifications' = <<>>
                /\ pc' = "idle"
           ELSE /\ notifications' =
                      IF cb = NULL THEN <<>>
                      ELSE <<[progress |-> 0, message |-> "Starting video analysis..."]>>
                /\ \E out \in CallbackOutcomes(cb) :
                      IF out = "returns"
                      THEN /\ pc' = "an_count"
                           /\ result' = NULL
                           /\ UNCHANGED g_last_error
                      ELSE AnalyzeCatch(out, CallbackWhat)

\* analyzed_count and scores.reserve(analyzed_count)
AnalyzeCount ==
    /\ pc = "an_count"
    /\ \E c \in AnalyzedCountOutcomes(sample_step) :
          IF c = TRAP
          THEN /\ pc' = "crashed"
               /\ UNCHANGED <<analyzed_count, g_last_error, result>>
          ELSE /\ analyzed_count' = c[1]
               /\ IF c[1] < 0
                  THEN AnalyzeCatch("std_exception", ReserveWhat)
                  ELSE /\ pc' = "an_loop"
                       /\ UNCHANGED <<g_last_error, result>>
    /\ UNCHANGED <<threadVars,
                   op, video_path, output_path, params, sample_step, callback, seed,
                   i, scores, ret, frames_to_use, notifications, cancelRequested>>

\* one iteration of the analysis loop
AnalyzeFrame ==
    /\ pc = "an_loop"
    /\ i < analyzed_count
    /\ scores' = Append(scores, PSFrameScore(seed, i, sample_step))
    /\ IF callback # NULL /\ ReportsProgress(i)
       THEN /\ notifications' =
                  Notified(callback,
                           AnalyzeProgress(i, i * sample_step, analyzed_count),
                           "Analyzing frame quality...")
            /\ \E out \in CallbackOutcomes(callback) :
                  IF out = "returns"
                  THEN /\ i' = i + 1
                       /\ UNCHANGED <<pc, g_last_error, result>>
                  ELSE /\ AnalyzeCatch(out, CallbackWhat)
                       /\ UNCHANGED i
       ELSE /\ i' = i + 1
            /\ UNCHANGED <<pc, g_last_error, result, notifications>>
    /\ UNCHANGED <<threadVars,
                   op, video_path, output_path, params, sample_step, callback, seed,
                   analyzed_count, ret, frames_to_use, cancelRequested>>

\* variant: the end of the loop reported as 100
AnalyzeSortingReportsComplete ==
    /\ pc = "an_loop"
    /\ ~(i < analyzed_count)
    /\ notifications' = Notified(callback, 100, "Sorting by quality...")
    /\ \E out \in CallbackOutcomes(callback) :
          IF out = "returns"
          THEN /\ pc' = "an_sort"
               /\ UNCHANGED <<g_last_error, result>>
          ELSE AnalyzeCatch(out, CallbackWhat)
    /\ UNCHANGED <<threadVars,
                   op, video_path, output_path, params, sample_step, callback, seed,
                   analyzed_count, i, scores, ret, frames_to_use, cancelRequested>>

\* the loop is over: callback(95, "Sorting by quality...")
AnalyzeSorting ==
    /\ pc = "an_loop"
    /\ ~(i < analyzed_count)
    /\ notifications' = Notified(callback, 95, "Sorting by quality...")
    /\ \E out \in CallbackOutcomes(callback) :
          IF out = "returns"
          THEN /\ pc' = "an_sort"
               /\ UNCHANGED <<g_last_error, result>>
          ELSE AnalyzeCatch(out, CallbackWhat)
    /\ UNCHANGED <<threadVars,
                   op, video_path, output_path, params, sample_step, callback, seed,
                   analyzed_count, i, scores, ret, frames_to_use, cancelRequested>>

\* std::sort, the result, callback(100, "Analysis complete") and the return
AnalyzeComplete ==
    /\ pc = "an_sort"
    /\ \E tie \in TieOrders :
        /\ scores' = SortByQuality(scores, tie)
        /\ notifications' = Notified(callback, 100, "Analysis complete")
        /\ \E out \in CallbackOutcomes(callback) :
              IF out = "returns"
              THEN /\ result' = <<PSAnalysisResult(scores')>>
                   /\ g_last_error' = ClearedOnSuccess(g_last_error)
                   /\ pc' = "idle"
              ELSE AnalyzeCatch(out, CallbackWhat)
    /\ UNCHANGED <<threadVars,
                   op, video_path, output_path, params, sample_step, callback, seed,
                   analyzed_count, i, ret, frames_to_use, cancelRequested>>

-----------------------------------------------------------------------------
(* ps_process_video *)

\* variant: output_path is not checked
ProcessArgsInvalidNoOutput(vp, outp, pa) == vp = NULL \/ pa = NULL

ProcessArgsInvalid(vp, outp, pa) == vp = NULL \/ outp = NULL \/ pa = NULL

\* static_cast<int>(1000 * params->keep_percentage): the product truncated
KeptFrames(kp) == TruncDiv(process_total_frames * kp, KeepScale)

\* frames_to_use after std::max(min_frames, std::min(max_frames, frames_to_use))
FramesToUse(p) ==
    Max(p.min_frames, Min(p.max_frames, KeptFrames(p.keep_percentage)))

\* variant: a stride of 3 in the global alignment loop
GlobalAlignProgressStride3(n) == 30 + (n * 3)

\* the progress values of the three loops
GlobalAlignProgress(n) == 30 + (n * 2)

LocalAlignProgress(n) == 50 + (n * 2)

StackProgress(n) == 70 + (n * 2)

GlobalAlignSteps == 10

LocalAlignSteps == 10

StackSteps == 5

\* the catch clauses of ps_process_video
ProcessCatch(exception, what) ==
    /\ g_last_error' = ProcessCatchMessage(exception, what)
    /\ ret' = -1
    /\ pc' = "idle"

\* "if (callback) callback(p, m, user_data)" and then on to the step `to`
ProcessNotify(p, m, to) ==
    /\ notifications' = Notified(callback, p, m)
    /\ \E out \in CallbackOutcomes(callback) :
          IF out = "returns"
          THEN /\ pc' = to
               /\ UNCHANGED <<g_last_error, ret>>
          ELSE ProcessCatch(out, CallbackWhat)

\* one iteration of a loop of `steps` iterations that reports p and goes on to
\* the step `to` when the loop is over
ProcessLoopNotify(p, m, steps, to) ==
    /\ notifications' = Notified(callback, p, m)
    /\ \E out \in CallbackOutcomes(callback) :
          IF out = "returns"
          THEN /\ i' = IF i + 1 < steps THEN i + 1 ELSE 0
               /\ pc' = IF i + 1 < steps THEN pc ELSE to
               /\ UNCHANGED <<g_last_error, ret>>
          ELSE /\ ProcessCatch(out, CallbackWhat)
               /\ UNCHANGED i

ProcessFrame == <<threadVars, op, video_path, output_path, params, sample_step, callback, seed,
                  analyzed_count, scores, result, cancelRequested>>

\* entry, the null checks and callback(0, "Analyzing frames...")
ProcessCall ==
    /\ pc = "idle"
    /\ \E vp \in Paths, outp \in Paths, pa \in ParamsPointers, cb \in Callbacks :
        /\ op' = "process"
        /\ video_path' = vp
        /\ output_path' = outp
        /\ params' = pa
        /\ callback' = cb
        /\ sample_step' = 1
        /\ seed' = 0
        /\ analyzed_count' = 0
        /\ i' = 0
        /\ scores' = <<>>
        /\ result' = NULL
        /\ frames_to_use' = 0
        /\ cancelRequested' = FALSE
        /\ UNCHANGED threadVars
        /\ IF ProcessArgsInvalid(vp, outp, pa)
           THEN /\ g_last_error' = "Invalid parameters"
                /\ ret' = -1
                /\ notifications' = <<>>
                /\ pc' = "idle"
           ELSE /\ notifications' =
                      IF cb = NULL THEN <<>>
                      ELSE <<[progress |-> 0, message |-> "Analyzing frames..."]>>
                /\ \E out \in CallbackOutcomes(cb) :
                      IF out = "returns"
                      THEN /\ pc' = "pv_analyze"
                           /\ ret' = 0
                           /\ UNCHANGED g_last_error
                      ELSE ProcessCatch(out, CallbackWhat)

\* stage 1: callback(15, "Analyzing frames...")
ProcessAnalyze ==
    /\ pc = "pv_analyze"
    /\ ProcessNotify(15, "Analyzing frames...", "pv_select")
    /\ UNCHANGED <<ProcessFrame, i, frames_to_use>>

\* stage 2: frames_to_use and callback(20, "Selecting best frames...")
ProcessSelect ==
    /\ pc = "pv_select"
    /\ frames_to_use' = FramesToUse(Deref(params))
    /\ ProcessNotify(20, "Selecting best frames...", "pv_global")
    /\ UNCHANGED <<ProcessFrame, i>>

\* stage 3: callback(30, "Aligning frames globally...")
ProcessGlobalAlign ==
    /\ pc = "pv_global"
    /\ ProcessNotify(30, "Aligning frames globally...", "pv_global_loop")
    /\ UNCHANGED <<ProcessFrame, i, frames_to_use>>

\* variant: local alignment runs whatever enable_local_align is
ProcessGlobalAlignStepAlwaysLocal ==
    /\ pc = "pv_global_loop"
    /\ ProcessLoopNotify(GlobalAlignProgress(i), "Aligning frames globally...",
                         GlobalAlignSteps, "pv_local")
    /\ UNCHANGED <<ProcessFrame, frames_to_use>>

ProcessGlobalAlignStep ==
    /\ pc = "pv_global_loop"
    /\ ProcessLoopNotify(GlobalAlignProgress(i), "Aligning frames globally...",
                         GlobalAlignSteps,
                         IF Deref(params).enable_local_align
                         THEN "pv_local" ELSE "pv_stack")
    /\ UNCHANGED <<ProcessFrame, frames_to_use>>

\* stage 4, if enabled: callback(50, "Aligning frames locally (tile-based)...")
ProcessLocalAlign ==
    /\ pc = "pv_local"
    /\ ProcessNotify(50, "Aligning frames locally (tile-based)...", "pv_local_loop")
    /\ UNCHANGED <<ProcessFrame, i, frames_to_use>>

\* variant: the local loop reports under the message of the global loop
ProcessLocalAlignStepGlobalMessage ==
    /\ pc = "pv_local_loop"
    /\ ProcessLoopNotify(LocalAlignProgress(i), "Aligning frames globally...",
                         LocalAlignSteps, "pv_stack")
    /\ UNCHANGED <<ProcessFrame, frames_to_use>>

ProcessLocalAlignStep ==
    /\ pc = "pv_local_loop"
    /\ ProcessLoopNotify(LocalAlignProgress(i), "Aligning frames locally...",
                         LocalAlignSteps, "pv_stack")
    /\ UNCHANGED <<ProcessFrame, frames_to_use>>

\* stage 5: callback(70, "Stacking frames with sigma clipping...")
ProcessStack ==
    /\ pc = "pv_stack"
    /\ ProcessNotify(70, "Stacking frames with sigma clipping...", "pv_stack_loop")
    /\ UNCHANGED <<ProcessFrame, i, frames_to_use>>

ProcessStackStep ==
    /\ pc = "pv_stack_loop"
    /\ ProcessLoopNotify(StackProgress(i), "Stacking frames...", StackSteps,
                         "pv_sharpen")
    /\ UNCHANGED <<ProcessFrame, frames_to_use>>

\* stage 6: callback(85, "Applying wavelet sharpening...")
ProcessSharpen ==
    /\ pc = "pv_sharpen"
    /\ ProcessNotify(85, "Applying wavelet sharpening...", "pv_save")
    /\ UNCHANGED <<ProcessFrame, i, frames_to_use>>

\* callback(95, "Saving output image...")
ProcessSave ==
    /\ pc = "pv_save"
    /\ ProcessNotify(95, "Saving output image...", "pv_complete")
    /\ UNCHANGED <<ProcessFrame, i, frames_to_use>>

\* callback(100, "Complete!"), g_last_error.clear() and return 0
ProcessComplete ==
    /\ pc = "pv_complete"
    /\ notifications' = Notified(callback, 100, "Complete!")
    /\ \E out \in CallbackOutcomes(callback) :
          IF out = "returns"
          THEN /\ g_last_error' = ClearedOnSuccess(g_last_error)
               /\ ret' = 0
               /\ pc' = "idle"
          ELSE ProcessCatch(out, CallbackWhat)
    /\ UNCHANGED <<ProcessFrame, i, frames_to_use>>

\* the stage a notification of ps_process_video announces, by the number of
\* the stage in the order Analyze, Select, GlobalAlign, LocalAlign, Stack,
\* Sharpen, Done ("Saving output image..." is reported from the sharpening
\* stage's block)
StageOf(message) ==
    CASE message = "Analyzing frames..." -> 1
      [] message = "Selecting best frames..." -> 2
      [] message = "Aligning frames globally..." -> 3
      [] message = "Aligning frames locally (tile-based)..." -> 4
      [] message = "Aligning frames locally..." -> 4
      [] message = "Stacking frames with sigma clipping..." -> 5
      [] message = "Stacking frames..." -> 5
      [] message = "Applying wavelet sharpening..." -> 6
      [] message = "Saving output image..." -> 6
      [] message = "Complete!" -> 7
      [] OTHER -> 0

ProcessRunning ==
    pc \in {"pv_analyze", "pv_select", "pv_global", "pv_global_loop", "pv_local",
            "pv_local_loop", "pv_stack", "pv_stack_loop", "pv_sharpen", "pv_save",
            "pv_complete"}

\* The caller asks for the running ps_process_video to stop.  The entry point
\* takes no cancellation argument and reads no cancellation state: the request
\* stays with the caller.
RequestCancel ==
    /\ ProcessRunning
    /\ ~cancelRequested
    /\ cancelRequested' = TRUE
    /\ UNCHANGED <<threadVars,
                   pc, op, video_path, output_path, params, sample_step, callback,
                   seed, analyzed_count, i, scores, result, ret, frames_to_use,
                   notifications, g_last_error>>

-----------------------------------------------------------------------------
(* Error handling *)

\* ps_get_last_error() returns g_last_error.c_str()
ps_get_last_error == g_last_error

ps_clear_error ==
    /\ pc = "idle"
    /\ g_last_error' = ""
    /\ op' = "clear"
    /\ UNCHANGED <<threadVars,
                   video_path, output_path, params, sample_step, callback, seed,
                   analyzed_count, i, scores, result, ret, frames_to_use,
                   notifications, cancelRequested, pc>>

Next ==
    \/ AnalyzeCall
    \/ AnalyzeCount
    \/ AnalyzeFrame
    \/ AnalyzeSorting
    \/ AnalyzeComplete
    \/ ProcessCall
    \/ ProcessAnalyze
    \/ ProcessSelect
    \/ ProcessGlobalAlign
    \/ ProcessGlobalAlignStep
    \/ ProcessLocalAlign
    \/ ProcessLocalAlignStep
    \/ ProcessStack
    \/ ProcessStackStep
    \/ ProcessSharpen
    \/ ProcessSave
    \/ ProcessComplete
    \/ RequestCancel
    \/ ps_clear_error

Spec == Init /\ [][Next]_vars

-----------------------------------------------------------------------------
(* Several threads calling the API.  g_last_error is thread_local: every    *)
(* thread has its own instance.  An entry point reads and writes nothing    *)
(* else that outlives the call, so a call is modelled by two steps, its     *)
(* entry and its return; the calls of the threads interleave at will.       *)

EntryPoints == {"analyze", "process"}

\* what a failing return of an entry point stores in g_last_error
FailureMessages(entry) ==
    IF entry = "analyze"
    THEN {"Video path cannot be null",
          AnalyzeCatchMessage("std_exception", CallbackWhat),
          AnalyzeCatchMessage("std_exception", ReserveWhat),
          AnalyzeCatchMessage("other_exception", CallbackWhat)}
    ELSE {"Invalid parameters",
          ProcessCatchMessage("std_exception", CallbackWhat),
          ProcessCatchMessage("other_exception", CallbackWhat)}

\* variant: g_last_error without thread_local, one instance for all threads
StoreErrorShared(errors, t, message) == [u \in DOMAIN errors |-> message]

\* thread t assigns to g_last_error: the store goes to t's instance
StoreError(errors, t, message) == [errors EXCEPT ![t] = message]

\* ps_get_last_error() called on thread t
ThreadLastError(t) == tls_last_error[t]

\* a thread enters ps_analyze_video or ps_process_video
ThreadEnter ==
    \E t \in Threads, entry \in EntryPoints :
        /\ thread_pc[t] = "idle"
        /\ thread_pc' = [thread_pc EXCEPT ![t] = entry]
        /\ actor' = t
        /\ UNCHANGED <<tls_last_error, callVars>>

\* the call of a thread returns nullptr / -1: the null check or a catch clause
ThreadCallFails ==
    \E t \in Threads :
        /\ thread_pc[t] \in EntryPoints
        /\ \E message \in FailureMessages(thread_pc[t]) :
              tls_last_error' = StoreError(tls_last_error, t, message)
        /\ thread_pc' = [thread_pc EXCEPT ![t] = "idle"]
        /\ actor' = t
        /\ UNCHANGED callVars

\* the call of a thread returns a result / 0 after g_last_error.clear()
ThreadCallSucceeds ==
    \E t \in Threads :
        /\ thread_pc[t] \in EntryPoints
        /\ tls_last_error' =
              StoreError(tls_last_error, t, ClearedOnSuccess(tls_last_error[t]))
        /\ thread_pc' = [thread_pc EXCEPT ![t] = "idle"]
        /\ actor' = t
        /\ UNCHANGED callVars

\* a thread calls ps_clear_error()
ThreadClearError ==
    \E t \in Threads :
        /\ thread_pc[t] = "idle"
        /\ tls_last_error' = StoreError(tls_last_error, t, "")
        /\ actor' = t
        /\ UNCHANGED <<thread_pc, callVars>>

ThreadNext ==
    \/ ThreadEnter
    \/ ThreadCallFails
    \/ ThreadCallSucceeds
    \/ ThreadClearError

ThreadSpec == Init /\ [][ThreadNext]_vars

-----------------------------------------------------------------------------
(* Properties *)

NonDecreasingPercent(ns) ==
    \A k \in 1..Len(ns) :
        /\ ns[k].progress \in 0..100
        /\ k > 1 => ns[k - 1].progress <= ns[k].progress

Received(p, m) ==
    \E k \in 1..Len(notifications) :
        notifications[k] = [progress |-> p, message |-> m]

\* C1: during a call of ps_process_video with non-null arguments and a
\* non-null callback, whatever enable_local_align is, the progress values the
\* callback receives never decrease and all lie in [0,100].
C1_ProcessProgressMonotone ==
    (op = "process" /\ callback # NULL) => NonDecreasingPercent(notifications)

C1_Witness ==
    /\ op = "process"
    /\ pc = "idle"
    /\ ret = 0
    /\ Deref(params).enable_local_align
    /\ Received(48, "Aligning frames globally...")
    /\ Received(50, "Aligning frames locally (tile-based)...")
    /\ Received(68, "Aligning frames locally...")
    /\ Received(100, "Complete!")

\* C2: cancellation requested while ps_process_video runs makes the call
\* return a Cancelled outcome, which is neither success (0) nor the generic
\* failure (-1), without the notification (100, "Complete!").
C2_CancelYieldsCancelled ==
    (op = "process" /\ pc = "idle" /\ cancelRequested)
        => (ret \notin {0, -1} /\ ~Received(100, "Complete!"))

CeilDiv(a, b) == (a \div b) + (IF a % b = 0 THEN 0 ELSE 1)

\* C3: for every int sample_step >= 1 up to INT32_MAX, the result returned by
\* ps_analyze_video has count = ceil(total_frames / sample_step).
C3_CountIsCeiling ==
    (op = "analyze" /\ pc = "idle" /\ result # NULL /\ sample_step >= 1)
        => Deref(result).count = CeilDiv(Deref(result).total_frames, sample_step)

\* C4: in every result of ps_analyze_video the scores are sorted descending
\* by quality_score, and entries of equal quality_score are in ascending
\* frame_index order.
C4_SortedTiesAscending ==
    (op = "analyze" /\ pc = "idle" /\ result # NULL)
        => LET r == Deref(result)
           IN \A k \in 1..(r.count - 1) :
                \/ r.scores[k].quality_score > r.scores[k + 1].quality_score
                \/ /\ r.scores[k].quality_score = r.scores[k + 1].quality_score
                   /\ r.scores[k].frame_index < r.scores[k + 1].frame_index

\* round(total_frames * keep_percentage) for keep_percentage >= 0
RoundedKeep(kp) == (process_total_frames * kp + KeepScale \div 2) \div KeepScale

Clamp(x, lo, hi) == IF x < lo THEN lo ELSE IF x > hi THEN hi ELSE x

\* frames_to_use holds the selection of the running call
Selected == op = "process" /\ pc = "pv_global"

\* C5: for keep_percentage in [0,1] and min_frames <= max_frames, frames_to_use
\* is clamp(round(total_frames * keep_percentage), min_frames, max_frames) when
\* that many frames were analyzed, and the number of analyzed frames otherwise.
C5_SelectedCount ==
    (/\ Selected
     /\ Deref(params).keep_percentage \in 0..KeepScale
     /\ Deref(params).min_frames <= Deref(params).max_frames)
        => LET n == Clamp(RoundedKeep(Deref(params).keep_percentage),
                          Deref(params).min_frames, Deref(params).max_frames)
           IN frames_to_use =
                  IF n <= process_total_frames THEN n ELSE process_total_frames

\* C6: for every params value, the number of frames ps_process_video selects
\* never exceeds the number of frames analyzed.
C6_NeverMoreThanAnalyzed ==
    Selected => frames_to_use <= process_total_frames

\* C7: ps_process_video with a null video_path, output_path or params, and
\* ps_analyze_video with a null video_path, return the failure outcome, set a
\* non-empty last error and never invoke the callback.
C7_InvalidInputNoWork ==
    /\ (op = "process"
          /\ (video_path = NULL \/ output_path = NULL \/ params = NULL))
        => (pc = "idle" /\ ret = -1 /\ ps_get_last_error # ""
              /\ notifications = <<>>)
    /\ (op = "analyze" /\ video_path = NULL)
        => (pc = "idle" /\ result = NULL /\ ps_get_last_error # ""
              /\ notifications = <<>>)

C7_Witness ==
    /\ op = "process"
    /\ pc = "idle"
    /\ video_path # NULL
    /\ output_path = NULL
    /\ params # NULL
    /\ callback # NULL
    /\ ret = -1

\* C8: between calls, ps_get_last_error returns a non-empty description
\* exactly when the most recent of ps_analyze_video, ps_process_video and
\* ps_clear_error was an entry point that failed.
C8_LastErrorIffFailed ==
    pc = "idle"
        => (ps_get_last_error # ""
              <=> \/ (op = "analyze" /\ result = NULL)
                  \/ (op = "process" /\ ret # 0))

C8_Witness ==
    /\ pc = "idle"
    /\ op = "process"
    /\ ret = 0
    /\ Received(100, "Complete!")
    /\ ps_get_last_error = ""

\* C9: for every argument combination, sample_step = 0, negative sample_step
\* and a throwing callback included, the entry points end by returning an
\* outcome: no call ends in a crash or trap.
C9_AlwaysReturns == pc # "crashed"

\* C10: during a call of ps_analyze_video with sample_step >= 1 and a
\* non-null callback the progress values never decrease and lie in [0,100];
\* every "Analyzing frame quality..." value is at most 95.
C10_AnalyzeProgressMonotone ==
    (op = "analyze" /\ sample_step >= 1 /\ callback # NULL)
        => /\ NonDecreasingPercent(notifications)
           /\ \A k \in 1..Len(notifications) :
                notifications[k].message = "Analyzing frame quality..."
                    => notifications[k].progress <= 95

C10_Witness ==
    /\ op = "analyze"
    /\ pc = "idle"
    /\ sample_step = 3
    /\ result # NULL
    /\ Received(80, "Analyzing frame quality...")
    /\ Received(95, "Sorting by quality...")
    /\ Received(100, "Analysis complete")

\* C11: in a successful call of ps_process_video the stages announced to the
\* callback come in the order Analyze, Select, GlobalAlign, (LocalAlign),
\* Stack, Sharpen, Done: after a notification of a later stage there is none
\* of an earlier stage.  (It holds at every point of every call.)
C11_StagesInOrder ==
    op = "process"
        => \A k \in 1..Len(notifications) :
             /\ StageOf(notifications[k].message) \in 1..7
             /\ k > 1 => StageOf(notifications[k - 1].message)
                            <= StageOf(notifications[k].message)

C11_Witness ==
    /\ op = "process"
    /\ pc = "idle"
    /\ ret = 0
    /\ callback # NULL
    /\ {StageOf(notifications[k].message) : k \in 1..Len(notifications)} = 1..7

Notification(p, m) == [progress |-> p, message |-> m]

IsLocalAlign(n) ==
    n.message \in {"Aligning frames locally (tile-based)...",
                   "Aligning frames locally..."}

WithoutLocalAlign(ns) == SelectSeq(ns, LAMBDA n : ~IsLocalAlign(n))

IsPrefix(s, t) == Len(s) <= Len(t) /\ s = SubSeq(t, 1, Len(s))

\* what a complete call reports outside the local alignment stage
NoLocalAlignSequence ==
    <<Notification(0, "Analyzing frames..."),
      Notification(15, "Analyzing frames..."),
      Notification(20, "Selecting best frames..."),
      Notification(30, "Aligning frames globally...")>>
    \o [k \in 1..10 |-> Notification(28 + 2 * k, "Aligning frames globally...")]
    \o <<Notification(70, "Stacking frames with sigma clipping...")>>
    \o [k \in 1..5 |-> Notification(68 + 2 * k, "Stacking frames...")]
    \o <<Notification(85, "Applying wavelet sharpening..."),
         Notification(95, "Saving output image..."),
         Notification(100, "Complete!")>>

\* C12: ps_process_video reports local alignment (progress 50..68) if and only
\* if enable_local_align is set; without it the notifications are those of the
\* enabled run with the local alignment ones taken out, and the call returns
\* the same outcome.
C12_LocalAlignOnlyWhenEnabled ==
    (op = "process" /\ callback # NULL)
        => /\ IsPrefix(WithoutLocalAlign(notifications), NoLocalAlignSequence)
           /\ \A k \in 1..Len(notifications) :
                IsLocalAlign(notifications[k])
                    => /\ Deref(params).enable_local_align
                       /\ notifications[k].progress \in 50..68
           /\ (pc = "idle" /\ ret = 0)
                => /\ WithoutLocalAlign(notifications) = NoLocalAlignSequence
                   /\ Deref(params).enable_local_align
                        <=> \E k \in 1..Len(notifications) :
                               IsLocalAlign(notifications[k])
           /\ (pc = "idle" /\ callback = <<"returns">> /\ video_path # NULL
                 /\ output_path # NULL /\ params # NULL)
                => ret = 0

C12_Witness ==
    /\ op = "process"
    /\ pc = "idle"
    /\ ret = 0
    /\ callback = <<"returns">>
    /\ ~Deref(params).enable_local_align
    /\ notifications = NoLocalAlignSequence

\* C13: for sample_step >= 1 the frame_index values of the result of
\* ps_analyze_video are pairwise distinct multiples of sample_step within
\* 0..total_frames-1, and they are exactly {k * sample_step : 0 <= k < count}:
\* sorting neither drops nor duplicates a frame.
C13_FrameIndicesExact ==
    (op = "analyze" /\ pc = "idle" /\ result # NULL /\ sample_step >= 1)
        => LET r == Deref(result)
               indices == {r.scores[k].frame_index : k \in 1..Len(r.scores)}
           IN /\ Len(r.scores) = r.count
              /\ Cardinality(indices) = r.count
              /\ indices = {k * sample_step : k \in 0..(r.count - 1)}
              /\ \A x \in indices :
                    /\ x % sample_step = 0
                    /\ 0 <= x
                    /\ x < r.total_frames

C13_Witness ==
    /\ op = "analyze"
    /\ pc = "idle"
    /\ result # NULL
    /\ sample_step = 7
    /\ Deref(result).count = 143
    /\ Deref(result).scores[1].frame_index # 0
    /\ Deref(result).scores[143].frame_index # 994

\* the call that ran last returned success
ReturnedSuccess ==
    /\ pc = "idle"
    /\ \/ (op = "process" /\ ret = 0)
       \/ (op = "analyze" /\ result # NULL)

Delivered100 ==
    \E k \in 1..Len(notifications) : notifications[k].progress = 100

\* progress 100 is delivered at most once and as the last notification of a call
CompleteIsFinal ==
    /\ \A k \in 1..Len(notifications) :
          notifications[k].progress = 100 => k = Len(notifications)
    /\ Delivered100 => pc = "idle"

C14_LastErrorPerThread ==
    [][\A t \in Threads :
          actor' # t => ThreadLastError(t)' = ThreadLastError(t)]_vars

C14_Witness ==
    /\ actor = 2
    /\ thread_pc[1] = "process"
    /\ ThreadLastError(1) = "Video path cannot be null"
    /\ thread_pc[2] = "idle"
    /\ ThreadLastError(2) = ""

====
